---- MODULE Spec2Model ----
(***************************************************************************)
(* Persistence layer of the Excalidraw plugin for Logseq DB graphs.        *)
(*                                                                         *)
(*   - the repository (hooks/useLogseq): one record per drawing under the  *)
(*     key 'drawing-<id>' and one index record under 'drawings-index', in  *)
(*     a key-value store without multi-key transactions;                   *)
(*   - the autosave scheduler (hooks/useExcalidraw): dirty flag, debounce  *)
(*     timer, flushes (timer callback and saveNow) and unmount.            *)
(*                                                                         *)
(* Every await of the source is a step boundary: an async function is a    *)
(* little process whose position (pc) is the await it is suspended at.     *)
(* Time passes in ticks of 5000 ms, the length of the auto-save delay.     *)
(***************************************************************************)
EXTENDS Integers, Sequences, FiniteSets, Bags, TLC

VARIABLES
    now,            \* Date.now(), in ticks
    store,          \* the sandbox storage: key -> stored JSON, for the keys present
    usedIds,        \* ids generateId has handed out
    ops,            \* repository calls in progress, in start order
    listedIds,      \* ids of App's `drawings` state
    drawing,        \* the hook's drawing option (drawingRef.current)
    elements,       \* the editor's scene elements (api.getSceneElements())
    tagsRef,        \* tagsRef.current of ExcalidrawEditor
    excalidrawAPI,  \* excalidrawAPIRef.current is set
    isInitialized,  \* isInitializedRef.current
    isMounted,      \* isMountedRef.current
    initTimer,      \* ticks left of setExcalidrawAPI's timeout, or NoTimer
    autoSaveTimer,  \* ticks left of the pending auto-save timeout, or NoTimer
    isDirty,        \* useState
    isSaving,       \* useState
    lastSaved,      \* useState: time of the last successful save, or Never
    lastSavedHash,  \* lastSavedHashRef.current
    flushes,        \* the bag of timer callbacks and saveNow calls in progress
    saveNowResult,  \* what the saveNow call that resolved last resolved to
    lastChangeAt    \* history: when handleChange last armed the pending timeout

repoVars == <<store, usedIds, ops, listedIds>>

schedVars == <<drawing, elements, tagsRef, excalidrawAPI, isInitialized, isMounted,
               initTimer, autoSaveTimer, isDirty, isSaving, lastSaved,
               lastSavedHash, flushes, saveNowResult, lastChangeAt>>

vars == <<now, repoVars, schedVars>>

----------------------------------------------------------------------------
(* Bounds of the model *)

MaxOps == 2          \* repository calls in progress at once
MaxFlushes == 1      \* flushes in progress at once (Spec, TagSpec)
MaxRaceFlushes == 2  \* flushes in progress at once (RaceSpec)
MaxTime == 1         \* clock ticks explored by the scheduler specifications

(* Program constants.  The clock counts units of 5000 ms: a timeout of     *)
(* 5000 ms fires once a tick has passed since it was set, a timeout of     *)
(* 1000 ms may fire before the next tick.                                  *)

AutoSaveInterval == 1    \* autoSaveInterval = 5000
InitDelay == 0           \* setTimeout(..., 1000) of setExcalidrawAPI

(* Domains the inputs are drawn from *)

DrawingIds == {"d1", "d2"}
Names == {"Sketch"}
TagNames == {"design"}
TagLists == {<<"design">>, <<"design", "draft">>}
ElementIds == {"a"}

Versions == {1}

Elements ==
    [id : ElementIds, type : {"rectangle"}, x : {0}, y : {0}, version : Versions]

(* The scenes of the editor: lists of elements with distinct ids *)
Scenes ==
    {<<>>} \cup {<<e>> : e \in Elements}

(* The scenes the hash is taken of: up to two elements with distinct ids,  *)
(* each with a version and a stroke colour, which the hash leaves out      *)
HashElements ==
    [id : {"a", "b"}, type : {"rectangle"}, x : {0}, y : {0}, version : {1, 2},
     strokeColor : {"black", "red"}]

HashScenes ==
    {<<>>} \cup {<<e>> : e \in HashElements}
           \cup {p \in HashElements \X HashElements : p[1].id # p[2].id}

NoTimer == -1
Never == -1

Undefined == "undefined"        \* an absent field of an object
NoDrawing == [null |-> TRUE]    \* the null of Drawing | null

----------------------------------------------------------------------------
(* JSON: a key whose value is undefined is not written; reading the absent *)
(* key of the parsed object gives undefined again.                         *)

Stringify(d) ==
    IF d.thumbnail = Undefined
    THEN [f \in DOMAIN d \ {"thumbnail"} |-> d[f]]
    ELSE d

Parse(s) ==
    [f \in DOMAIN s \cup {"thumbnail"} |->
        IF f \in DOMAIN s THEN s[f] ELSE Undefined]

(* The key-value store: getItem gives null for an absent key.              *)
IndexKey == "drawings-index"

DrawingKey(id) == "drawing-" \o id

HasItem(key) == key \in DOMAIN store

SetItem(key, value) ==
    [x \in DOMAIN store \cup {key} |-> IF x = key THEN value ELSE store[x]]

RemoveItem(key) ==
    [x \in DOMAIN store \ {key} |-> store[x]]

(* getIndex: the stored list; the empty list when the key is absent or the *)
(* read throws.                                                            *)
getIndex(ok) ==
    IF ok /\ HasItem(IndexKey) THEN store[IndexKey] ELSE <<>>

getCurrentTimestamp == now

(* The ids listed by the stored index, and those among them with no record *)
IndexIds == {getIndex(TRUE)[k] : k \in DOMAIN getIndex(TRUE)}

Dangling == {i \in IndexIds : ~HasItem(DrawingKey(i))}

Orphans == {i \in DrawingIds : HasItem(DrawingKey(i)) /\ i \notin IndexIds}

RemoveAt(s, k) == [j \in 1..(Len(s) - 1) |-> IF j < k THEN s[j] ELSE s[j + 1]]

Filter(s, x) == SelectSeq(s, LAMBDA y : y # x)

(* Array.prototype.sort by updatedAt, newest first; the sort is stable.    *)
RECURSIVE InsertByUpdatedAt(_, _)
InsertByUpdatedAt(d, s) ==
    IF Len(s) = 0 \/ Head(s).updatedAt <= d.updatedAt
    THEN <<d>> \o s
    ELSE <<Head(s)>> \o InsertByUpdatedAt(d, Tail(s))

RECURSIVE SortByUpdatedAt(_)
SortByUpdatedAt(s) ==
    IF Len(s) = 0 THEN s
    ELSE InsertByUpdatedAt(Head(s), SortByUpdatedAt(Tail(s)))

(* A listing in the order of the index                                     *)
loadDrawings_indexOrder ==
    [k \in 1..Len(SelectSeq(getIndex(TRUE), LAMBDA i : HasItem(DrawingKey(i)))) |->
        Parse(store[DrawingKey(
            SelectSeq(getIndex(TRUE), LAMBDA i : HasItem(DrawingKey(i)))[k])])]

(* loadDrawings when its storage calls succeed: the parsed records of the  *)
(* index ids that have one, newest first.                                  *)
loadDrawings ==
    SortByUpdatedAt(
        [k \in 1..Len(SelectSeq(getIndex(TRUE), LAMBDA i : HasItem(DrawingKey(i)))) |->
            Parse(store[DrawingKey(
                SelectSeq(getIndex(TRUE), LAMBDA i : HasItem(DrawingKey(i)))[k])])])

(* A lookup that goes through the index                                    *)
loadDrawing_listedOnly(id) ==
    IF id \in IndexIds /\ HasItem(DrawingKey(id))
    THEN Parse(store[DrawingKey(id)]) ELSE NoDrawing

(* loadDrawing(id) when its storage call succeeds: the parsed record, or   *)
(* null when there is none.                                                *)
loadDrawing(id) ==
    IF HasItem(DrawingKey(id)) THEN Parse(store[DrawingKey(id)]) ELSE NoDrawing

(* loadDrawing(id) with its catch: null when the read or the parse throws  *)
loadDrawing_catch(id, ok) ==
    IF ok THEN loadDrawing(id) ELSE NoDrawing

(* The loop of loadDrawings: the record of each id of the index is read,   *)
(* parsed and pushed; an id with no record, or whose read or parse throws, *)
(* is skipped.                                                             *)
RECURSIVE PushReadable(_, _)
PushReadable(index, unreadable) ==
    IF Len(index) = 0 THEN <<>>
    ELSE IF HasItem(DrawingKey(Head(index))) /\ Head(index) \notin unreadable
         THEN <<Parse(store[DrawingKey(Head(index))])>>
                  \o PushReadable(Tail(index), unreadable)
         ELSE PushReadable(Tail(index), unreadable)

(* A listing that fails as a whole when one id cannot be read              *)
loadDrawingsSkipping_allOrNothing(unreadable) ==
    IF \E i \in IndexIds : ~HasItem(DrawingKey(i)) \/ i \in unreadable
    THEN <<>>
    ELSE SortByUpdatedAt(PushReadable(getIndex(TRUE), unreadable))

(* loadDrawings when the reads of the ids in unreadable throw              *)
loadDrawingsSkipping(unreadable) ==
    SortByUpdatedAt(PushReadable(getIndex(TRUE), unreadable))

(* loadDrawings with its outer catch: the empty list when getStorage       *)
(* throws                                                                  *)
loadDrawings_catch(ok, unreadable) ==
    IF ok THEN loadDrawingsSkipping(unreadable) ELSE <<>>

----------------------------------------------------------------------------
(* Repository calls in progress.  kind/pc say which call and which await   *)
(* it is suspended at; id, drawing and idx are its locals; result is what  *)
(* it will return.                                                         *)

Op(kind, pc, id, d) ==
    [kind |-> kind, pc |-> pc, id |-> id, drawing |-> d, idx |-> <<>>,
     result |-> NoDrawing]

StartOp(o) ==
    ops' = Append(ops, o)

StepOp(k, o) == ops' = [ops EXCEPT ![k] = o]

At(k, kind, pc) == k \in DOMAIN ops /\ ops[k].kind = kind /\ ops[k].pc = pc

(* App makes d the current drawing and shows the editor: ExcalidrawEditor  *)
(* and its hook are mounted anew.                                          *)
openEditor(d) ==
    /\ drawing' = d
    /\ elements' = d.data.elements
    /\ tagsRef' = d.tags
    /\ excalidrawAPI' = FALSE
    /\ isInitialized' = FALSE
    /\ isMounted' = TRUE
    /\ initTimer' = NoTimer
    /\ autoSaveTimer' = NoTimer
    /\ isDirty' = FALSE
    /\ isSaving' = FALSE
    /\ lastSaved' = Never
    /\ lastSavedHash' = ""
    /\ flushes' = EmptyBag
    /\ saveNowResult' = "none"
    /\ lastChangeAt' = Never

(* The cleanup of the hook's mount effect *)
unmountCleanup ==
    /\ isMounted' = FALSE
    /\ autoSaveTimer' = NoTimer
    /\ lastChangeAt' = Never
    /\ isInitialized' = FALSE
    /\ UNCHANGED <<drawing, elements, tagsRef, excalidrawAPI, initTimer,
                   isDirty, isSaving, lastSaved, lastSavedHash, flushes, saveNowResult>>

(* createDrawing(name, tag) up to its first await: the id, the timestamp   *)
(* and the record are fixed, storage.setItem of the record is issued.      *)
createDrawing(name, tag) ==
    /\ \E id \in DrawingIds \ usedIds :
        /\ usedIds' = usedIds \cup {id}
        /\ StartOp(Op("create", "setItem", id,
                [id |-> id, name |-> name,
                 tags |-> IF tag # Undefined THEN <<tag>> ELSE <<>>,
                 data |-> [elements |-> <<>>],
                 thumbnail |-> Undefined,
                 createdAt |-> getCurrentTimestamp,
                 updatedAt |-> getCurrentTimestamp]))
    /\ UNCHANGED <<now, store, listedIds, schedVars>>

(* A record write that throws is taken for done and the index is updated.  *)
createDrawing_setItem_swallowed(k, ok) ==
    /\ At(k, "create", "setItem")
    /\ store' = IF ok THEN SetItem(DrawingKey(ops[k].id), Stringify(ops[k].drawing))
                ELSE store
    /\ StepOp(k, [ops[k] EXCEPT !.pc = "getIndex"])
    /\ UNCHANGED <<now, usedIds, listedIds, schedVars>>

(* storage.setItem('drawing-<id>') has returned or thrown: on a throw the  *)
(* catch returns null, otherwise getIndex is awaited.                      *)
createDrawing_setItem(k, ok) ==
    /\ At(k, "create", "setItem")
    /\ IF ok
       THEN /\ store' = SetItem(DrawingKey(ops[k].id), Stringify(ops[k].drawing))
            /\ StepOp(k, [ops[k] EXCEPT !.pc = "getIndex"])
       ELSE /\ store' = store
            /\ StepOp(k, [ops[k] EXCEPT !.pc = "return", !.result = NoDrawing])
    /\ UNCHANGED <<now, usedIds, listedIds, schedVars>>

(* getIndex has returned: index.unshift(id), saveIndex(index) is awaited.  *)
createDrawing_getIndex(k, ok) ==
    /\ At(k, "create", "getIndex")
    /\ StepOp(k, [ops[k] EXCEPT !.pc = "saveIndex",
                                !.idx = <<ops[k].id>> \o getIndex(ok)])
    /\ UNCHANGED <<now, store, usedIds, listedIds, schedVars>>

(* saveIndex writes the list; a throw of storage.setItem is caught inside  *)
(* saveIndex and only logged.                                              *)
saveIndex(idx, ok) ==
    store' = IF ok THEN SetItem(IndexKey, idx) ELSE store

createDrawing_saveIndex(k, ok) ==
    /\ At(k, "create", "saveIndex")
    /\ saveIndex(ops[k].idx, ok)
    /\ StepOp(k, [ops[k] EXCEPT !.pc = "return", !.result = ops[k].drawing])
    /\ UNCHANGED <<now, usedIds, listedIds, schedVars>>

(* The call returns to App.handleCreateDrawing, which lists a drawing it   *)
(* was given and opens it in the editor.                                   *)
handleCreateDrawing_return(k) ==
    /\ At(k, "create", "return")
    /\ IF ops[k].result # NoDrawing
       THEN /\ listedIds' = listedIds \cup {ops[k].id}
            /\ openEditor(ops[k].result)
       ELSE UNCHANGED <<listedIds, schedVars>>
    /\ ops' = RemoveAt(ops, k)
    /\ UNCHANGED <<now, store, usedIds>>

(* deleteDrawing(id) up to its first await: storage.removeItem is issued.  *)
deleteDrawing(id) ==
    /\ id \in listedIds
    /\ StartOp(Op("delete", "removeItem", id, NoDrawing))
    /\ UNCHANGED <<now, store, usedIds, listedIds, schedVars>>

(* A failed removal of the record that is taken for done                   *)
deleteDrawing_removeItem_swallowed(k, ok) ==
    /\ At(k, "delete", "removeItem")
    /\ store' = IF ok THEN RemoveItem(DrawingKey(ops[k].id)) ELSE store
    /\ StepOp(k, [ops[k] EXCEPT !.pc = "getIndex"])
    /\ UNCHANGED <<now, usedIds, listedIds, schedVars>>

(* storage.removeItem('drawing-<id>') has returned or thrown.              *)
deleteDrawing_removeItem(k, ok) ==
    /\ At(k, "delete", "removeItem")
    /\ IF ok
       THEN /\ store' = RemoveItem(DrawingKey(ops[k].id))
            /\ StepOp(k, [ops[k] EXCEPT !.pc = "getIndex"])
       ELSE /\ store' = store
            /\ StepOp(k, [ops[k] EXCEPT !.pc = "return", !.result = FALSE])
    /\ UNCHANGED <<now, usedIds, listedIds, schedVars>>

(* getIndex has returned: the list without id is handed to saveIndex.      *)
deleteDrawing_getIndex(k, ok) ==
    /\ At(k, "delete", "getIndex")
    /\ StepOp(k, [ops[k] EXCEPT !.pc = "saveIndex",
                                !.idx = Filter(getIndex(ok), ops[k].id)])
    /\ UNCHANGED <<now, store, usedIds, listedIds, schedVars>>

deleteDrawing_saveIndex(k, ok) ==
    /\ At(k, "delete", "saveIndex")
    /\ saveIndex(ops[k].idx, ok)
    /\ StepOp(k, [ops[k] EXCEPT !.pc = "return", !.result = TRUE])
    /\ UNCHANGED <<now, usedIds, listedIds, schedVars>>

(* The call returns to App.handleDeleteDrawing, which on success unlists   *)
(* the drawing and leaves the editor when it shows that drawing.           *)
handleDeleteDrawing_return(k) ==
    /\ At(k, "delete", "return")
    /\ IF ops[k].result = TRUE
       THEN /\ listedIds' = listedIds \ {ops[k].id}
            /\ IF isMounted /\ drawing.id = ops[k].id
               THEN unmountCleanup
               ELSE UNCHANGED schedVars
       ELSE UNCHANGED <<listedIds, schedVars>>
    /\ ops' = RemoveAt(ops, k)
    /\ UNCHANGED <<now, store, usedIds>>

(* The plugin is reloaded (or the host crashes and restarts): the calls in *)
(* progress are gone, the store is what it was, App shows the dashboard    *)
(* and loads the list of drawings again (loadDrawings skips an index id    *)
(* that has no record).                                                    *)
Reload ==
    /\ ops' = <<>>
    /\ listedIds' = {i \in IndexIds : HasItem(DrawingKey(i))}
    /\ IF isMounted THEN unmountCleanup ELSE UNCHANGED schedVars
    /\ UNCHANGED <<now, store, usedIds>>

----------------------------------------------------------------------------
(* The autosave scheduler (useExcalidraw) of the open drawing               *)

ElementSummary(e) ==
    e.id \o ":" \o e.type \o ":" \o ToString(e.x) \o ":" \o ToString(e.y)
         \o ":" \o ToString(e.version)

RECURSIVE JoinSummaries(_)
JoinSummaries(els) ==
    IF Len(els) = 1 THEN ElementSummary(els[1])
    ELSE ElementSummary(els[1]) \o "|" \o JoinSummaries(Tail(els))

(* A hash that is the number of elements                                   *)
getDataHash_countOnly(els) ==
    IF Len(els) = 0 THEN "empty" ELSE ToString(Len(els))

(* A hash that joins the summaries in an order of its own, whatever the    *)
(* order of the elements is                                                *)
getDataHash_anyOrder(els) ==
    IF Len(els) = 0 THEN "empty"
    ELSE JoinSummaries(CHOOSE q \in [DOMAIN els -> {els[i] : i \in DOMAIN els}] :
                           \A i \in DOMAIN els : \E j \in DOMAIN q : q[j] = els[i])

(* getDataHash: 'empty' for no elements, else id:type:x:y:version of each  *)
(* element joined by '|'.                                                  *)
getDataHash(els) ==
    IF Len(els) = 0 THEN "empty" ELSE JoinSummaries(els)

getExcalidrawData == [elements |-> elements]

(* The data URL generateThumbnail makes of a scene's SVG *)
Thumbnail == "data:image/svg+xml;base64"

(* A useState setter: React drops the update of an unmounted component.    *)
setState(current, value) == IF isMounted THEN value ELSE current

Flush(kind) ==
    [kind |-> kind, pc |-> "generateThumbnail", data |-> getExcalidrawData,
     payload |-> NoDrawing]

FlushAt(f, pc) == f \in BagToSet(flushes) /\ f.pc = pc

StartFlush(f) == flushes (+) SetToBag({f})

EndFlush(f) == flushes (-) SetToBag({f})

StepFlush(f, g) == (flushes (-) SetToBag({f})) (+) SetToBag({g})

(* saveDrawing without the new timestamp *)
saveDrawing_keepsTimestamp(d) == d

(* What saveDrawing hands to storage.setItem: the drawing it was given     *)
(* with updatedAt set to the time of the call.                             *)
saveDrawing(d) == [d EXCEPT !.updatedAt = getCurrentTimestamp]

(* The payload with the tags of the drawing option instead of tagsRef     *)
FlushPayload_tagsOfDrawing(data, thumbnail) ==
    [drawing EXCEPT !.data = data, !.thumbnail = thumbnail]

(* The drawing a flush hands to onSave: the current drawing option with    *)
(* the snapshot, the thumbnail and the tags of tagsRef.current.            *)
FlushPayload(data, thumbnail) ==
    [drawing EXCEPT !.data = data, !.thumbnail = thumbnail, !.tags = tagsRef]

(* The editor hands its API to the hook: the hash of the drawing's stored  *)
(* elements is taken for the last saved one and a 1000 ms timeout is set   *)
(* that marks the hook initialized.                                        *)
setExcalidrawAPI ==
    /\ isMounted /\ ~excalidrawAPI
    /\ excalidrawAPI' = TRUE
    /\ lastSavedHash' = getDataHash(drawing.data.elements)
    /\ initTimer' = InitDelay
    /\ UNCHANGED <<now, repoVars, drawing, elements, tagsRef, isInitialized, isMounted,
                   autoSaveTimer, isDirty, isSaving, lastSaved, flushes, saveNowResult, lastChangeAt>>

(* The timeout of setExcalidrawAPI fires; unmounting does not clear it.    *)
initTimeout ==
    /\ initTimer = 0
    /\ initTimer' = NoTimer
    /\ isInitialized' = TRUE
    /\ UNCHANGED <<now, repoVars, drawing, elements, tagsRef, excalidrawAPI, isMounted,
                   autoSaveTimer, isDirty, isSaving, lastSaved, lastSavedHash,
                   flushes, saveNowResult, lastChangeAt>>

(* handleChange that leaves a pending timeout running instead of          *)
(* replacing it                                                            *)
handleChange_changed_keepsTimer(currentHash) ==
    IF currentHash # lastSavedHash
    THEN /\ isDirty' = setState(isDirty, TRUE)
         /\ autoSaveTimer' = IF autoSaveTimer = NoTimer
                             THEN AutoSaveInterval ELSE autoSaveTimer
         /\ lastChangeAt' = now
    ELSE /\ UNCHANGED <<isDirty, autoSaveTimer, lastChangeAt>>

(* handleChange marking the drawing dirty at every report of the editor    *)
handleChange_changed_everyReport(currentHash) ==
    /\ isDirty' = setState(isDirty, TRUE)
    /\ autoSaveTimer' = AutoSaveInterval
    /\ lastChangeAt' = now

(* The body of handleChange once the API is there and the hook is          *)
(* initialized: a hash other than the last saved one marks the drawing     *)
(* dirty and replaces the pending timeout by a new one.                    *)
handleChange_changed(currentHash) ==
    IF currentHash # lastSavedHash
    THEN /\ isDirty' = setState(isDirty, TRUE)
         /\ autoSaveTimer' = AutoSaveInterval
         /\ lastChangeAt' = now
    ELSE /\ UNCHANGED <<isDirty, autoSaveTimer, lastChangeAt>>

(* handleChange that does not wait for the hook to be initialized          *)
handleChange_uninitialized(els) ==
    /\ excalidrawAPI
    /\ isMounted \/ els = elements
    /\ elements' = els
    /\ handleChange_changed(getDataHash(els))
    /\ UNCHANGED <<now, repoVars, drawing, tagsRef, excalidrawAPI, isInitialized, isMounted,
                   initTimer, isSaving, lastSaved, lastSavedHash, flushes, saveNowResult>>

(* The editor reports a change (onChange): the scene is now els, which may *)
(* be the scene as it was (a change of appState only).  After unmount the  *)
(* editor is gone and a call sees the scene as it was left.                *)
handleChange(els) ==
    /\ excalidrawAPI
    /\ isMounted \/ els = elements
    /\ elements' = els
    /\ IF isInitialized
       THEN handleChange_changed(getDataHash(els))
       ELSE UNCHANGED <<isDirty, autoSaveTimer, lastChangeAt>>
    /\ UNCHANGED <<now, repoVars, drawing, tagsRef, excalidrawAPI, isInitialized, isMounted,
                   initTimer, isSaving, lastSaved, lastSavedHash, flushes, saveNowResult>>

(* The auto-save timeout fires: the callback returns at once when          *)
(* unmounted, else it snapshots the scene, sets isSaving and awaits        *)
(* generateThumbnail.                                                      *)
autoSaveTimeout ==
    /\ autoSaveTimer = 0
    /\ autoSaveTimer' = NoTimer
    /\ lastChangeAt' = Never
    /\ IF isMounted
       THEN /\ isSaving' = setState(isSaving, TRUE)
            /\ flushes' = StartFlush(Flush("timer"))
       ELSE UNCHANGED <<isSaving, flushes>>
    /\ UNCHANGED <<now, repoVars, drawing, elements, tagsRef, excalidrawAPI, isInitialized,
                   isMounted, initTimer, isDirty, lastSaved, lastSavedHash, saveNowResult>>

(* saveNow that leaves the pending auto-save timeout running              *)
saveNow_keepsTimer ==
    /\ IF excalidrawAPI
       THEN /\ isSaving' = setState(isSaving, TRUE)
            /\ flushes' = StartFlush(Flush("saveNow"))
            /\ UNCHANGED <<saveNowResult, autoSaveTimer, lastChangeAt>>
       ELSE /\ saveNowResult' = "false"
            /\ UNCHANGED <<isSaving, autoSaveTimer, lastChangeAt, flushes>>
    /\ UNCHANGED <<now, repoVars, drawing, elements, tagsRef, excalidrawAPI, isInitialized,
                   isMounted, initTimer, isDirty, lastSaved, lastSavedHash>>

(* saveNow up to its first await: without the API it resolves to false;    *)
(* else it snapshots the scene, sets isSaving, clears the pending timeout  *)
(* and awaits generateThumbnail.                                           *)
saveNow ==
    /\ IF excalidrawAPI
       THEN /\ isSaving' = setState(isSaving, TRUE)
            /\ autoSaveTimer' = NoTimer
            /\ lastChangeAt' = Never
            /\ flushes' = StartFlush(Flush("saveNow"))
            /\ UNCHANGED saveNowResult
       ELSE /\ saveNowResult' = "false"
            /\ UNCHANGED <<isSaving, autoSaveTimer, lastChangeAt, flushes>>
    /\ UNCHANGED <<now, repoVars, drawing, elements, tagsRef, excalidrawAPI, isInitialized,
                   isMounted, initTimer, isDirty, lastSaved, lastSavedHash>>

(* generateThumbnail: null for an empty scene (the scene as it is when the *)
(* export runs) or when the export throws, else a data URL.                *)
generateThumbnail(ok) ==
    IF ok /\ Len(elements) # 0 THEN Thumbnail ELSE Undefined

(* A flush that is given up when no thumbnail could be made               *)
flush_callOnSave_needsThumbnail(f, thumbnail) ==
    IF thumbnail = Undefined /\ Len(f.data.elements) # 0
    THEN EndFlush(f)
    ELSE StepFlush(f, [f EXCEPT !.pc = "onSave",
                          !.payload = saveDrawing(FlushPayload(f.data, thumbnail))])

(* The flush goes on with what generateThumbnail resolved to, a data URL   *)
(* or null: it calls onSave with the drawing, thumbnail or not.            *)
flush_callOnSave(f, thumbnail) ==
    StepFlush(f, [f EXCEPT !.pc = "onSave",
                     !.payload = saveDrawing(FlushPayload(f.data, thumbnail))])

(* The continuation after generateThumbnail without the look at isMounted *)
flush_generateThumbnail_unchecked(f, ok) ==
    /\ FlushAt(f, "generateThumbnail")
    /\ flushes' = flush_callOnSave(f, generateThumbnail(ok))
    /\ UNCHANGED <<now, repoVars, drawing, elements, tagsRef, excalidrawAPI, isInitialized,
                   isMounted, initTimer, autoSaveTimer, isDirty, isSaving, lastSaved,
                   lastSavedHash, saveNowResult, lastChangeAt>>

(* generateThumbnail has resolved.  The timer callback returns here when   *)
(* unmounted; otherwise onSave (App.handleSaveDrawing, saveDrawing) is     *)
(* called and its storage.setItem awaited.                                 *)
flush_generateThumbnail(f, ok) ==
    /\ FlushAt(f, "generateThumbnail")
    /\ IF f.kind = "timer" /\ ~isMounted
       THEN flushes' = EndFlush(f)
       ELSE flushes' = flush_callOnSave(f, generateThumbnail(ok))
    /\ UNCHANGED <<now, repoVars, drawing, elements, tagsRef, excalidrawAPI, isInitialized,
                   isMounted, initTimer, autoSaveTimer, isDirty, isSaving, lastSaved,
                   lastSavedHash, saveNowResult, lastChangeAt>>

(* The hook taking every result of onSave for a saved drawing             *)
flush_result_ignoresNull(f, saved) ==
    IF f.kind = "timer" /\ ~isMounted
    THEN UNCHANGED <<lastSavedHash, isDirty, lastSaved, isSaving, saveNowResult>>
    ELSE /\ lastSavedHash' = getDataHash(f.data.elements)
         /\ isDirty' = setState(isDirty, FALSE)
         /\ lastSaved' = setState(lastSaved, now)
         /\ isSaving' = setState(isSaving, FALSE)
         /\ saveNowResult' = IF f.kind = "saveNow" THEN "true" ELSE saveNowResult

(* The hook not keeping the hash of what it has saved                      *)
flush_result_forgetsHash(f, saved) ==
    IF f.kind = "timer" /\ ~isMounted
    THEN UNCHANGED <<lastSavedHash, isDirty, lastSaved, isSaving, saveNowResult>>
    ELSE /\ IF saved
            THEN /\ lastSavedHash' = ""
                 /\ isDirty' = setState(isDirty, FALSE)
                 /\ lastSaved' = setState(lastSaved, now)
            ELSE UNCHANGED <<lastSavedHash, isDirty, lastSaved>>
         /\ isSaving' = setState(isSaving, FALSE)
         /\ saveNowResult' = IF f.kind = "saveNow"
                             THEN (IF saved THEN "true" ELSE "false")
                             ELSE saveNowResult

(* The hook taking the hash of the scene as it is when the write returns   *)
flush_result_hashOfCurrent(f, saved) ==
    IF f.kind = "timer" /\ ~isMounted
    THEN UNCHANGED <<lastSavedHash, isDirty, lastSaved, isSaving, saveNowResult>>
    ELSE /\ IF saved
            THEN /\ lastSavedHash' = getDataHash(elements)
                 /\ isDirty' = setState(isDirty, FALSE)
                 /\ lastSaved' = setState(lastSaved, now)
            ELSE UNCHANGED <<lastSavedHash, isDirty, lastSaved>>
         /\ isSaving' = setState(isSaving, FALSE)
         /\ saveNowResult' = IF f.kind = "saveNow"
                             THEN (IF saved THEN "true" ELSE "false")
                             ELSE saveNowResult

(* What the hook does with the result of onSave.  The timer callback       *)
(* returns before it when unmounted; saveNow does not look at isMounted.   *)
flush_result(f, saved) ==
    IF f.kind = "timer" /\ ~isMounted
    THEN UNCHANGED <<lastSavedHash, isDirty, lastSaved, isSaving, saveNowResult>>
    ELSE /\ IF saved
            THEN /\ lastSavedHash' = getDataHash(f.data.elements)
                 /\ isDirty' = setState(isDirty, FALSE)
                 /\ lastSaved' = setState(lastSaved, now)
            ELSE UNCHANGED <<lastSavedHash, isDirty, lastSaved>>
         /\ isSaving' = setState(isSaving, FALSE)
         /\ saveNowResult' = IF f.kind = "saveNow"
                             THEN (IF saved THEN "true" ELSE "false")
                             ELSE saveNowResult

(* A failed write that arms the auto-save timeout again                    *)
flush_onSave_retries(f, ok) ==
    /\ FlushAt(f, "onSave")
    /\ store' = IF ok THEN SetItem(DrawingKey(f.payload.id), Stringify(f.payload))
                ELSE store
    /\ drawing' = IF ok /\ isMounted THEN f.payload ELSE drawing
    /\ flush_result(f, ok)
    /\ flushes' = EndFlush(f)
    /\ autoSaveTimer' = IF ok THEN autoSaveTimer ELSE AutoSaveInterval
    /\ UNCHANGED <<now, usedIds, ops, listedIds, elements, tagsRef, excalidrawAPI,
                   isInitialized, isMounted, initTimer, lastChangeAt>>

(* storage.setItem of saveDrawing has returned or thrown: saveDrawing      *)
(* returns the drawing it wrote, or null; App.handleSaveDrawing makes a    *)
(* drawing it got the current one; the hook takes the result.              *)
flush_onSave(f, ok) ==
    /\ FlushAt(f, "onSave")
    /\ store' = IF ok THEN SetItem(DrawingKey(f.payload.id), Stringify(f.payload))
                ELSE store
    /\ drawing' = IF ok /\ isMounted THEN f.payload ELSE drawing
    /\ flush_result(f, ok)
    /\ flushes' = EndFlush(f)
    /\ UNCHANGED <<now, usedIds, ops, listedIds, elements, tagsRef, excalidrawAPI,
                   isInitialized, isMounted, initTimer, autoSaveTimer, lastChangeAt>>

(* The editor is left (App.handleBackToDashboard): the hook unmounts and   *)
(* the dashboard lists what loadDrawings returns.                          *)
unmount ==
    /\ isMounted
    /\ unmountCleanup
    /\ listedIds' = {loadDrawings[k].id : k \in DOMAIN loadDrawings}
    /\ UNCHANGED <<now, store, usedIds, ops>>

(* The tag editor: handleUpdateTags sets currentTags and the effect copies *)
(* them to tagsRef.current.                                                *)
handleUpdateTags(newTags) ==
    /\ isMounted
    /\ newTags # tagsRef
    /\ tagsRef' = newTags
    /\ UNCHANGED <<now, repoVars, drawing, elements, excalidrawAPI, isInitialized,
                   isMounted, initTimer, autoSaveTimer, isDirty, isSaving, lastSaved,
                   lastSavedHash, flushes, saveNowResult, lastChangeAt>>

(* A tick passes *)
CountDown(t) == IF t > 0 THEN t - 1 ELSE t

Tick ==
    /\ now' = now + 1
    /\ initTimer' = CountDown(initTimer)
    /\ autoSaveTimer' = CountDown(autoSaveTimer)
    /\ UNCHANGED <<repoVars, drawing, elements, tagsRef, excalidrawAPI, isInitialized,
                   isMounted, isDirty, isSaving, lastSaved, lastSavedHash, flushes,
                   saveNowResult, lastChangeAt>>

----------------------------------------------------------------------------
(* The repository calls of the dashboard's cards and of the open editor    *)

(* The patches of updateDrawingMeta: a new name, or new tags               *)
MetaUpdates == {[name |-> "B"], [tags |-> <<"design", "draft">>]}

(* { ...drawing, name: updates.name ?? drawing.name,                       *)
(*   tags: updates.tags ?? drawing.tags, updatedAt: getCurrentTimestamp() } *)
UpdatedDrawing(d, updates) ==
    [d EXCEPT !.name = IF "name" \in DOMAIN updates THEN updates.name ELSE d.name,
              !.tags = IF "tags" \in DOMAIN updates THEN updates.tags ELSE d.tags,
              !.updatedAt = getCurrentTimestamp]

(* updateDrawingMeta(id, updates) up to its first await: storage.getItem   *)
(* of the record is issued.                                                *)
updateDrawingMeta(id, updates) ==
    /\ id \in listedIds
    /\ StartOp(Op("update", "getItem", id, NoDrawing) @@ [updates |-> updates])
    /\ UNCHANGED <<now, store, usedIds, listedIds, schedVars>>

(* storage.getItem has returned or thrown: null for a missing record or a  *)
(* throw; else the patched drawing is handed to storage.setItem.           *)
updateDrawingMeta_getItem(k, ok) ==
    /\ At(k, "update", "getItem")
    /\ IF ok /\ HasItem(DrawingKey(ops[k].id))
       THEN StepOp(k, [ops[k] EXCEPT !.pc = "setItem",
                         !.drawing = UpdatedDrawing(
                             Parse(store[DrawingKey(ops[k].id)]), ops[k].updates)])
       ELSE StepOp(k, [ops[k] EXCEPT !.pc = "return", !.result = NoDrawing])
    /\ UNCHANGED <<now, store, usedIds, listedIds, schedVars>>

(* updateDrawingMeta without its catch: the throw of storage.setItem goes  *)
(* on to the caller                                                        *)
updateDrawingMeta_setItem_uncaught(k, ok) ==
    /\ At(k, "update", "setItem")
    /\ IF ok
       THEN /\ store' = SetItem(DrawingKey(ops[k].id), Stringify(ops[k].drawing))
            /\ StepOp(k, [ops[k] EXCEPT !.pc = "return", !.result = ops[k].drawing])
       ELSE /\ store' = store
            /\ StepOp(k, [ops[k] EXCEPT !.pc = "return", !.result = [thrown |-> TRUE]])
    /\ UNCHANGED <<now, usedIds, listedIds, schedVars>>

(* storage.setItem has returned or thrown                                  *)
updateDrawingMeta_setItem(k, ok) ==
    /\ At(k, "update", "setItem")
    /\ IF ok
       THEN /\ store' = SetItem(DrawingKey(ops[k].id), Stringify(ops[k].drawing))
            /\ StepOp(k, [ops[k] EXCEPT !.pc = "return", !.result = ops[k].drawing])
       ELSE /\ store' = store
            /\ StepOp(k, [ops[k] EXCEPT !.pc = "return", !.result = NoDrawing])
    /\ UNCHANGED <<now, usedIds, listedIds, schedVars>>

(* The call returns to App.handleUpdateDrawing of the dashboard, where no  *)
(* drawing is the current one.                                             *)
handleUpdateDrawing_return(k) ==
    /\ At(k, "update", "return")
    /\ ops' = RemoveAt(ops, k)
    /\ UNCHANGED <<now, store, usedIds, listedIds, schedVars>>

(* The open editor's hook calls onSave with the drawing of a flush:        *)
(* App.handleSaveDrawing calls saveDrawing, which issues storage.setItem.  *)
handleSaveDrawing(data, thumbnail) ==
    /\ isMounted
    /\ StartOp(Op("save", "setItem", drawing.id,
                  saveDrawing(FlushPayload(data, thumbnail))))
    /\ UNCHANGED <<now, store, usedIds, listedIds, schedVars>>

(* storage.setItem of saveDrawing has returned or thrown                   *)
saveDrawing_setItem(k, ok) ==
    /\ At(k, "save", "setItem")
    /\ IF ok
       THEN /\ store' = SetItem(DrawingKey(ops[k].id), Stringify(ops[k].drawing))
            /\ StepOp(k, [ops[k] EXCEPT !.pc = "return", !.result = ops[k].drawing])
       ELSE /\ store' = store
            /\ StepOp(k, [ops[k] EXCEPT !.pc = "return", !.result = NoDrawing])
    /\ UNCHANGED <<now, usedIds, listedIds, schedVars>>

(* saveDrawing returns to App.handleSaveDrawing, which makes a drawing it  *)
(* got the current one.                                                    *)
handleSaveDrawing_return(k) ==
    /\ At(k, "save", "return")
    /\ drawing' = IF ops[k].result # NoDrawing /\ isMounted
                  THEN ops[k].result ELSE drawing
    /\ ops' = RemoveAt(ops, k)
    /\ UNCHANGED <<now, store, usedIds, listedIds, elements, tagsRef, excalidrawAPI,
                   isInitialized, isMounted, initTimer, autoSaveTimer, isDirty,
                   isSaving, lastSaved, lastSavedHash, flushes, saveNowResult,
                   lastChangeAt>>

(* The drawings a flush of the open editor can hand to onSave              *)
SaveInputs ==
    {<<[elements |-> els], th>> : els \in Scenes, th \in {Thumbnail, Undefined}}
        \ {<<[elements |-> <<>>], Thumbnail>>}

----------------------------------------------------------------------------
(* No editor is open *)
NoEditor ==
    /\ drawing = NoDrawing
    /\ elements = <<>>
    /\ tagsRef = <<>>
    /\ excalidrawAPI = FALSE
    /\ isInitialized = FALSE
    /\ isMounted = FALSE
    /\ initTimer = NoTimer
    /\ autoSaveTimer = NoTimer
    /\ isDirty = FALSE
    /\ isSaving = FALSE
    /\ lastSaved = Never
    /\ lastSavedHash = ""
    /\ flushes = EmptyBag
    /\ saveNowResult = "none"
    /\ lastChangeAt = Never

(* The state of the hook when ExcalidrawEditor is rendered first for d      *)
EditorOpened(d) ==
    /\ drawing = d
    /\ elements = d.data.elements
    /\ tagsRef = d.tags
    /\ excalidrawAPI = FALSE
    /\ isInitialized = FALSE
    /\ isMounted = TRUE
    /\ initTimer = NoTimer
    /\ autoSaveTimer = NoTimer
    /\ isDirty = FALSE
    /\ isSaving = FALSE
    /\ lastSaved = Never
    /\ lastSavedHash = ""
    /\ flushes = EmptyBag
    /\ saveNowResult = "none"
    /\ lastChangeAt = Never

(* The repository with an empty store, no editor *)
RepoInit ==
    /\ now = 0
    /\ store = <<>>
    /\ usedIds = {}
    /\ ops = <<>>
    /\ listedIds = {}
    /\ NoEditor

(* The drawing "Sketch" with tag "design", as createDrawing made it at     *)
(* time 0                                                                  *)
StoredSketch ==
    [id |-> "d1", name |-> "Sketch", tags |-> <<"design">>,
     data |-> [elements |-> <<>>], thumbnail |-> Undefined,
     createdAt |-> 0, updatedAt |-> 0]

(* The editor has just been opened on a stored drawing *)
Init ==
    /\ now = 0
    /\ store = [key \in {IndexKey, DrawingKey("d1")} |->
                   IF key = IndexKey THEN <<"d1">> ELSE Stringify(StoredSketch)]
    /\ EditorOpened(Parse(Stringify(StoredSketch)))
    /\ usedIds = {"d1"}
    /\ ops = <<>>
    /\ listedIds = {"d1"}

(* The editor has just been opened on a stored drawing with some scene     *)
HashInit ==
    \E scene \in HashScenes :
        LET d == [StoredSketch EXCEPT !.data = [elements |-> scene]]
        IN /\ now = 0
           /\ store = [key \in {IndexKey, DrawingKey("d1")} |->
                          IF key = IndexKey THEN <<"d1">> ELSE Stringify(d)]
           /\ EditorOpened(Parse(Stringify(d)))
           /\ usedIds = {"d1"}
           /\ ops = <<>>
           /\ listedIds = {"d1"}

(* The hook takes the hash of the stored scene and of every scene the      *)
(* editor reports                                                          *)
HashNext ==
    \/ setExcalidrawAPI
    \/ initTimeout
    \/ \E els \in HashScenes : handleChange(els)

HashSpec == HashInit /\ [][HashNext]_vars

(* The scheduler of one open drawing whose tags are left alone: at most    *)
(* MaxFlushes flushes at once, and saveNow is called from the editor's     *)
(* header, which is gone once the editor is left.                          *)
Next ==
    \/ setExcalidrawAPI
    \/ initTimeout
    \/ \E els \in Scenes : handleChange(els)
    \/ BagCardinality(flushes) < MaxFlushes /\ autoSaveTimeout
    \/ isMounted /\ BagCardinality(flushes) < MaxFlushes /\ saveNow
    \/ \E f \in BagToSet(flushes), ok \in BOOLEAN : flush_generateThumbnail(f, ok)
    \/ \E f \in BagToSet(flushes), ok \in BOOLEAN : flush_onSave(f, ok)
    \/ unmount
    \/ now < MaxTime /\ Tick

Spec == Init /\ [][Next]_vars

(* The scheduler whose editor reports changes only after the delay of      *)
(* setExcalidrawAPI has passed                                             *)
SettledNext ==
    \/ setExcalidrawAPI
    \/ initTimeout
    \/ \E els \in Scenes : isInitialized /\ handleChange(els)
    \/ BagCardinality(flushes) < MaxFlushes /\ autoSaveTimeout
    \/ isMounted /\ BagCardinality(flushes) < MaxFlushes /\ saveNow
    \/ \E f \in BagToSet(flushes), ok \in BOOLEAN : flush_generateThumbnail(f, ok)
    \/ \E f \in BagToSet(flushes), ok \in BOOLEAN : flush_onSave(f, ok)
    \/ unmount
    \/ now < MaxTime /\ Tick

SettledSpec == Init /\ [][SettledNext]_vars

(* The same with more flushes at once and with calls of saveNow that come *)
(* after unmount                                                           *)
RaceNext ==
    \/ setExcalidrawAPI
    \/ initTimeout
    \/ \E els \in Scenes : handleChange(els)
    \/ BagCardinality(flushes) < MaxRaceFlushes /\ autoSaveTimeout
    \/ BagCardinality(flushes) < MaxRaceFlushes /\ saveNow
    \/ \E f \in BagToSet(flushes), ok \in BOOLEAN : flush_generateThumbnail(f, ok)
    \/ \E f \in BagToSet(flushes), ok \in BOOLEAN : flush_onSave(f, ok)
    \/ unmount
    \/ now < MaxTime /\ Tick

RaceSpec == Init /\ [][RaceNext]_vars

(* The scenes of an editor session in which every edit adds the element or *)
(* raises its version, as the editor does with each change of an element   *)
Revisions ==
    {<<>>} \cup {<<[e EXCEPT !.version = v]>> : e \in Elements, v \in {1, 2}}

(* Scene t is a later revision than scene s *)
Later(s, t) ==
    \/ s = <<>> /\ t # <<>>
    \/ s # <<>> /\ t # <<>> /\ t[1].id = s[1].id /\ t[1].version > s[1].version

(* The mounted scheduler in such a session, with more flushes at once      *)
RevisionNext ==
    \/ setExcalidrawAPI
    \/ initTimeout
    \/ \E els \in Revisions : Later(elements, els) /\ handleChange(els)
    \/ BagCardinality(flushes) < MaxRaceFlushes /\ autoSaveTimeout
    \/ BagCardinality(flushes) < MaxRaceFlushes /\ saveNow
    \/ \E f \in BagToSet(flushes), ok \in BOOLEAN : flush_generateThumbnail(f, ok)
    \/ \E f \in BagToSet(flushes), ok \in BOOLEAN : flush_onSave(f, ok)
    \/ now < MaxTime /\ Tick

RevisionSpec == Init /\ [][RevisionNext]_vars

(* The mounted scheduler with the tag editor in use, thumbnails and       *)
(* storage writes succeeding                                               *)
TagNext ==
    \/ setExcalidrawAPI
    \/ initTimeout
    \/ \E els \in Scenes : handleChange(els)
    \/ BagCardinality(flushes) < MaxFlushes /\ autoSaveTimeout
    \/ BagCardinality(flushes) < MaxFlushes /\ saveNow
    \/ \E f \in BagToSet(flushes) : flush_generateThumbnail(f, TRUE)
    \/ \E f \in BagToSet(flushes) : flush_onSave(f, TRUE)
    \/ \E t \in TagLists : handleUpdateTags(t)
    \/ now < MaxTime /\ Tick

TagSpec == Init /\ [][TagNext]_vars

(* The repository under concurrent calls, failing storage calls and       *)
(* reloads; the time the calls take is not counted.  Drawings are created  *)
(* and deleted from the dashboard, which is shown while no editor is.      *)
RepoNext ==
    \/ /\ ~isMounted /\ Len(ops) < MaxOps
       /\ \E n \in Names, t \in TagNames \cup {Undefined} : createDrawing(n, t)
    \/ \E k \in 1..MaxOps, ok \in BOOLEAN : createDrawing_setItem(k, ok)
    \/ \E k \in 1..MaxOps, ok \in BOOLEAN : createDrawing_getIndex(k, ok)
    \/ \E k \in 1..MaxOps, ok \in BOOLEAN : createDrawing_saveIndex(k, ok)
    \/ \E k \in 1..MaxOps : handleCreateDrawing_return(k)
    \/ ~isMounted /\ Len(ops) < MaxOps /\ \E id \in DrawingIds : deleteDrawing(id)
    \/ \E k \in 1..MaxOps, ok \in BOOLEAN : deleteDrawing_removeItem(k, ok)
    \/ \E k \in 1..MaxOps, ok \in BOOLEAN : deleteDrawing_getIndex(k, ok)
    \/ \E k \in 1..MaxOps, ok \in BOOLEAN : deleteDrawing_saveIndex(k, ok)
    \/ \E k \in 1..MaxOps : handleDeleteDrawing_return(k)
    \/ unmount
    \/ Reload

RepoSpec == RepoInit /\ [][RepoNext]_vars

(* The repository under concurrent calls when no storage call fails and   *)
(* the plugin is not reloaded: the dashboard creates, renames and deletes, *)
(* the open editor saves a scene of one element.                           *)
CalmNext ==
    \/ /\ ~isMounted /\ Len(ops) < MaxOps
       /\ \E n \in Names, t \in TagNames : createDrawing(n, t)
    \/ \E k \in 1..MaxOps : createDrawing_setItem(k, TRUE)
    \/ \E k \in 1..MaxOps : createDrawing_getIndex(k, TRUE)
    \/ \E k \in 1..MaxOps : createDrawing_saveIndex(k, TRUE)
    \/ \E k \in 1..MaxOps : handleCreateDrawing_return(k)
    \/ ~isMounted /\ Len(ops) < MaxOps /\ \E id \in DrawingIds : deleteDrawing(id)
    \/ \E k \in 1..MaxOps : deleteDrawing_removeItem(k, TRUE)
    \/ \E k \in 1..MaxOps : deleteDrawing_getIndex(k, TRUE)
    \/ \E k \in 1..MaxOps : deleteDrawing_saveIndex(k, TRUE)
    \/ \E k \in 1..MaxOps : handleDeleteDrawing_return(k)
    \/ /\ ~isMounted /\ Len(ops) < MaxOps
       /\ \E id \in DrawingIds : updateDrawingMeta(id, [name |-> "B"])
    \/ \E k \in 1..MaxOps : updateDrawingMeta_getItem(k, TRUE)
    \/ \E k \in 1..MaxOps : updateDrawingMeta_setItem(k, TRUE)
    \/ \E k \in 1..MaxOps : handleUpdateDrawing_return(k)
    \/ Len(ops) < MaxOps /\ \E els \in Scenes \ {<<>>} : handleSaveDrawing([elements |-> els], Thumbnail)
    \/ \E k \in 1..MaxOps : saveDrawing_setItem(k, TRUE)
    \/ \E k \in 1..MaxOps : handleSaveDrawing_return(k)
    \/ unmount

CalmSpec == RepoInit /\ [][CalmNext]_vars

(* The repository when each call is started after the one before it has    *)
(* returned; storage calls may fail.                                       *)
SeqNext ==
    \/ /\ ~isMounted /\ ops = <<>>
       /\ \E n \in Names, t \in TagNames \cup {Undefined} : createDrawing(n, t)
    \/ \E ok \in BOOLEAN : createDrawing_setItem(1, ok)
    \/ \E ok \in BOOLEAN : createDrawing_getIndex(1, ok)
    \/ \E ok \in BOOLEAN : createDrawing_saveIndex(1, ok)
    \/ handleCreateDrawing_return(1)
    \/ ~isMounted /\ ops = <<>> /\ \E id \in DrawingIds : deleteDrawing(id)
    \/ \E ok \in BOOLEAN : deleteDrawing_removeItem(1, ok)
    \/ \E ok \in BOOLEAN : deleteDrawing_getIndex(1, ok)
    \/ \E ok \in BOOLEAN : deleteDrawing_saveIndex(1, ok)
    \/ handleDeleteDrawing_return(1)
    \/ /\ ~isMounted /\ ops = <<>>
       /\ \E id \in DrawingIds, u \in MetaUpdates : updateDrawingMeta(id, u)
    \/ \E ok \in BOOLEAN : updateDrawingMeta_getItem(1, ok)
    \/ \E ok \in BOOLEAN : updateDrawingMeta_setItem(1, ok)
    \/ handleUpdateDrawing_return(1)
    \/ ops = <<>> /\ \E inp \in SaveInputs : handleSaveDrawing(inp[1], inp[2])
    \/ \E ok \in BOOLEAN : saveDrawing_setItem(1, ok)
    \/ handleSaveDrawing_return(1)
    \/ ops = <<>> /\ unmount

SeqSpec == RepoInit /\ [][SeqNext]_vars

(* The repository over time: calls that follow one another and whose       *)
(* storage calls succeed, with the clock ticking between and during them.  *)
TimedNext ==
    \/ /\ ~isMounted /\ ops = <<>>
       /\ \E n \in Names, t \in TagNames : createDrawing(n, t)
    \/ createDrawing_setItem(1, TRUE)
    \/ createDrawing_getIndex(1, TRUE)
    \/ createDrawing_saveIndex(1, TRUE)
    \/ handleCreateDrawing_return(1)
    \/ /\ ~isMounted /\ ops = <<>>
       /\ \E id \in DrawingIds : updateDrawingMeta(id, [name |-> "B"])
    \/ updateDrawingMeta_getItem(1, TRUE)
    \/ updateDrawingMeta_setItem(1, TRUE)
    \/ handleUpdateDrawing_return(1)
    \/ /\ ops = <<>>
       /\ \E els \in Scenes \ {<<>>} : handleSaveDrawing([elements |-> els], Thumbnail)
    \/ saveDrawing_setItem(1, TRUE)
    \/ handleSaveDrawing_return(1)
    \/ ops = <<>> /\ unmount
    \/ now < MaxTime /\ Tick

TimedSpec == RepoInit /\ [][TimedNext]_vars

(* One drawing under failing storage and thumbnail calls: it is created    *)
(* from the dashboard, edited and saved in the editor, by hand and by the  *)
(* auto-save timeout, and renamed and deleted from the dashboard; each     *)
(* call is started when the one before it has returned, and time passes    *)
(* while a timeout is pending.                                             *)
FaultNext ==
    \/ /\ usedIds = {} /\ ops = <<>>
       /\ \E n \in Names, t \in TagNames : createDrawing(n, t)
    \/ \E ok \in BOOLEAN : createDrawing_setItem(1, ok)
    \/ \E ok \in BOOLEAN : createDrawing_getIndex(1, ok)
    \/ \E ok \in BOOLEAN : createDrawing_saveIndex(1, ok)
    \/ handleCreateDrawing_return(1)
    \/ ~isMounted /\ ops = <<>> /\ \E id \in DrawingIds : deleteDrawing(id)
    \/ \E ok \in BOOLEAN : deleteDrawing_removeItem(1, ok)
    \/ \E ok \in BOOLEAN : deleteDrawing_getIndex(1, ok)
    \/ \E ok \in BOOLEAN : deleteDrawing_saveIndex(1, ok)
    \/ handleDeleteDrawing_return(1)
    \/ /\ ~isMounted /\ ops = <<>>
       /\ \E id \in DrawingIds : updateDrawingMeta(id, [name |-> "B"])
    \/ \E ok \in BOOLEAN : updateDrawingMeta_getItem(1, ok)
    \/ \E ok \in BOOLEAN : updateDrawingMeta_setItem(1, ok)
    \/ handleUpdateDrawing_return(1)
    \/ setExcalidrawAPI
    \/ initTimeout
    \/ \E els \in Scenes : isMounted /\ handleChange(els)
    \/ flushes = EmptyBag /\ autoSaveTimeout
    \/ isMounted /\ flushes = EmptyBag /\ saveNow
    \/ \E f \in BagToSet(flushes), ok \in BOOLEAN : flush_generateThumbnail(f, ok)
    \/ \E f \in BagToSet(flushes), ok \in BOOLEAN : flush_onSave(f, ok)
    \/ ops = <<>> /\ flushes = EmptyBag /\ unmount
    \/ now < MaxTime /\ autoSaveTimer > 0 /\ Tick

FaultSpec == RepoInit /\ [][FaultNext]_vars

(* The scenario of one drawing: it is created in an empty store and       *)
(* opened, the scene is edited once after the hook is initialized, and     *)
(* every thumbnail and storage call succeeds; before the edit the user may *)
(* save by hand until a save has succeeded.  Time passes while a timeout   *)
(* is pending, and up to MaxTime ticks besides.                            *)
LiveNext ==
    \/ usedIds = {} /\ createDrawing("Sketch", "design")
    \/ createDrawing_setItem(1, TRUE)
    \/ createDrawing_getIndex(1, TRUE)
    \/ createDrawing_saveIndex(1, TRUE)
    \/ handleCreateDrawing_return(1)
    \/ setExcalidrawAPI
    \/ initTimeout
    \/ \E els \in Scenes : isInitialized /\ elements = <<>> /\ handleChange(els)
    \/ /\ isMounted /\ elements = <<>> /\ lastSaved = Never
       /\ BagCardinality(flushes) < MaxFlushes
       /\ saveNow
    \/ autoSaveTimeout
    \/ \E f \in BagToSet(flushes) : flush_generateThumbnail(f, TRUE)
    \/ \E f \in BagToSet(flushes) : flush_onSave(f, TRUE)
    \/ (now < MaxTime \/ autoSaveTimer > 0) /\ Tick

(* Every call that can go on does, and the user does create and edit.     *)
LiveSpec == RepoInit /\ [][LiveNext]_vars /\ WF_vars(LiveNext)

----------------------------------------------------------------------------
(* Claims about the autosave scheduler                                     *)

(* The step puts the flush record g in progress *)
Started(g) == CopiesIn(g, flushes') > CopiesIn(g, flushes)

(* The step starts a flush of the auto-save timeout *)
TimerFlushStarts ==
    \E g \in BagToSet(flushes') :
        g.kind = "timer" /\ g.pc = "generateThumbnail" /\ Started(g)

(* C1: at most one flush is in progress at any time: neither saveNow nor   *)
(* an expiring timeout starts a flush while another one is in progress.    *)
C1_SingleFlight ==
    BagCardinality(flushes) <= 1

(* C2: the timeout of a burst of changed handleChange calls starts one     *)
(* flush, not before the full delay has passed since the last of the       *)
(* calls, and the timeout is used up by it.                                *)
C2_Debounce ==
    [][TimerFlushStarts =>
          /\ lastChangeAt # Never
          /\ now - lastChangeAt >= AutoSaveInterval
          /\ autoSaveTimer' = NoTimer
          /\ BagCardinality(flushes') = BagCardinality(flushes) + 1]_vars

(* A flush of the timeout is in progress, a tick after the change          *)
C2_Witness ==
    /\ now >= AutoSaveInterval
    /\ isDirty
    /\ \E f \in BagToSet(flushes) :
          f.kind = "timer" /\ f.data.elements # <<>>

(* C3: in an initialized, mounted scheduler isDirty is true exactly when   *)
(* the fingerprint of the current elements differs from the last saved one *)
C3_DirtyIffChanged ==
    (isMounted /\ isInitialized)
        => (isDirty <=> getDataHash(elements) # lastSavedHash)

(* C4: when the storage write of a flush fails, isDirty and the last saved *)
(* fingerprint stay as they are and saveNow resolves to false; a saveNow   *)
(* whose write succeeds clears isDirty of the mounted hook and resolves to *)
(* true.                                                                   *)
C4_FailedWriteStaysDirty ==
    [][\A f \in BagToSet(flushes) :
          /\ flush_onSave(f, FALSE) =>
                /\ isDirty' = isDirty
                /\ lastSavedHash' = lastSavedHash
                /\ f.kind = "saveNow" => saveNowResult' = "false"
          /\ (f.kind = "saveNow" /\ isMounted /\ flush_onSave(f, TRUE)) =>
                /\ ~isDirty'
                /\ saveNowResult' = "true"]_vars

(* A saveNow has resolved to false and the drawing is still dirty          *)
C4_Witness ==
    /\ saveNowResult = "false"
    /\ isDirty
    /\ getDataHash(elements) # lastSavedHash
    /\ flushes = EmptyBag

(* C5: the drawing a flush hands to onSave carries the tags tagsRef holds  *)
(* when onSave is called, and these are the tags the write stores.         *)
C5_LiveTags ==
    [][/\ \A g \in BagToSet(flushes') :
            (g.pc = "onSave" /\ Started(g)) => g.payload.tags = tagsRef
       /\ \A f \in BagToSet(flushes) :
            flush_onSave(f, TRUE) =>
                Parse(store'[DrawingKey(f.payload.id)]).tags = f.payload.tags]_vars

(* A flush of the timeout is writing tags that were edited in the editor   *)
C5_Witness ==
    \E f \in BagToSet(flushes) :
        /\ f.kind = "timer" /\ f.pc = "onSave"
        /\ f.payload.tags = <<"design", "draft">>
        /\ drawing.tags = <<"design">>

(* C6: after unmount nothing changes isDirty, isSaving, lastSaved or the   *)
(* last saved fingerprint.                                                 *)
C6_NothingAfterUnmount ==
    [][~isMounted => UNCHANGED <<isDirty, isSaving, lastSaved, lastSavedHash>>]_vars

(* C7: unmount cancels the auto-save timeout, and after unmount no flush   *)
(* of the timeout starts and none goes on to the storage write.            *)
C7_NoTimerWriteAfterUnmount ==
    [][/\ (isMounted /\ ~isMounted') => autoSaveTimer' = NoTimer
       /\ ~isMounted =>
            \A g \in BagToSet(flushes') : g.kind = "timer" => ~Started(g)]_vars

(* The hook was unmounted while the flush of the timeout awaited the       *)
(* thumbnail, and the flush has ended without a write.                     *)
C7_Witness ==
    /\ ~isMounted
    /\ isSaving
    /\ flushes = EmptyBag
    /\ saveNowResult = "none"
    /\ elements # <<>>
    /\ Parse(store[DrawingKey(drawing.id)]).data.elements = <<>>

(* The one stored drawing is "Sketch" with tag "design", it has content    *)
(* and was updated after it was created, and the hook is not dirty.        *)
C8_Saved ==
    /\ Len(loadDrawings) = 1
    /\ loadDrawings[1].name = "Sketch"
    /\ loadDrawings[1].tags = <<"design">>
    /\ loadDrawings[1].data.elements # <<>>
    /\ loadDrawings[1].updatedAt > loadDrawings[1].createdAt
    /\ ~isDirty

(* C8: after the creation of "Sketch" with tag "design" and one edit, the  *)
(* drawing is eventually stored as edited: loadDrawings returns it alone,  *)
(* with its name, tag and content and a newer updatedAt, and isDirty is    *)
(* false.                                                                  *)
C8_AutosaveLiveness ==
    <>C8_Saved

----------------------------------------------------------------------------
(* Claims about the repository                                             *)

(* C9: on delete the index entry is removed before the record, so that at  *)
(* every intermediate point of deleteDrawing the id being deleted, while   *)
(* it is still in the index, has its record.                               *)
C9_IndexEntryRemovedFirst ==
    \A k \in DOMAIN ops :
        (ops[k].kind = "delete" /\ ops[k].id \in IndexIds)
            => HasItem(DrawingKey(ops[k].id))

C11_NullUnlessBothWritten ==
    \A k \in DOMAIN ops :
        (ops[k].kind = "create" /\ ops[k].pc = "return"
            /\ ops[k].result # NoDrawing)
            => (HasItem(DrawingKey(ops[k].id)) /\ ops[k].id \in IndexIds)

(* C12: deleteDrawing returns true only when the id is no longer in the    *)
(* stored index.                                                           *)
C12_TrueOnlyIfUnindexed ==
    \A k \in DOMAIN ops :
        (ops[k].kind = "delete" /\ ops[k].pc = "return"
            /\ ops[k].result = TRUE)
            => ops[k].id \notin IndexIds

(* C13: invariant I1 in steady state: when no repository call is in       *)
(* progress, every id of the stored index has a stored record.             *)
C13_IndexedHaveRecords ==
    ops = <<>> => Dangling = {}

(* C14: invariant I2: when no repository call is in progress, every stored *)
(* record has its id in the index.                                         *)
C14_RecordsAreIndexed ==
    ops = <<>> => Orphans = {}

(* The ids of the drawings loadDrawings returns *)
LoadedIds == {loadDrawings[j].id : j \in DOMAIN loadDrawings}

(* C15: when createDrawing has returned the new drawing, loadDrawings      *)
(* returns it once, with the name given, no elements and createdAt equal   *)
(* to updatedAt, and it returns nothing else when the store was empty.     *)
C15_CreatedIsListed ==
    \A k \in DOMAIN ops :
        (ops[k].kind = "create" /\ ops[k].pc = "return"
            /\ ops[k].result # NoDrawing)
            => /\ Cardinality({j \in DOMAIN loadDrawings :
                                  loadDrawings[j].id = ops[k].id}) = 1
               /\ \A j \in DOMAIN loadDrawings :
                     loadDrawings[j].id = ops[k].id =>
                        /\ loadDrawings[j].name = ops[k].result.name
                        /\ loadDrawings[j].data.elements = <<>>
                        /\ loadDrawings[j].createdAt = loadDrawings[j].updatedAt
               /\ usedIds = {ops[k].id} => Len(loadDrawings) = 1

(* C16: when deleteDrawing(id) has returned true, loadDrawing(id) returns  *)
(* null and loadDrawings returns no drawing with that id.                  *)
C16_DeletedIsGone ==
    \A k \in DOMAIN ops :
        (ops[k].kind = "delete" /\ ops[k].pc = "return"
            /\ ops[k].result = TRUE)
            => /\ loadDrawing(ops[k].id) = NoDrawing
               /\ ops[k].id \notin LoadedIds

(* A drawing was created and renamed, and its deletion has returned true   *)
(* while another drawing is still listed.                                  *)
C16_Witness ==
    \E k \in DOMAIN ops :
        /\ ops[k].kind = "delete" /\ ops[k].pc = "return"
        /\ ops[k].result = TRUE
        /\ ops[k].id \in usedIds
        /\ LoadedIds # {}

(* C17: a deleteDrawing(id) that returns true takes id, and only id, out   *)
(* of the index, the other ids keeping their order, and changes no record  *)
(* of another id.                                                          *)
C17_DeleteAffectsOnlyId ==
    [][(At(1, "delete", "saveIndex") /\ ops' # <<>> /\ ops'[1].pc = "return"
           /\ ops'[1].result = TRUE)
          => /\ getIndex(TRUE)' = Filter(getIndex(TRUE), ops[1].id)
             /\ \A i \in DrawingIds \ {ops[1].id} :
                   /\ HasItem(DrawingKey(i))' = HasItem(DrawingKey(i))
                   /\ HasItem(DrawingKey(i)) =>
                         store'[DrawingKey(i)] = store[DrawingKey(i)]]_vars

(* C20: loadDrawings returns exactly the records of the index ids whose    *)
(* record is there and readable, whatever other ids the index lists.       *)
C20_ListingSkipsMissing ==
    \A unreadable \in SUBSET DrawingIds :
        LET loaded == loadDrawingsSkipping(unreadable)
            good == {i \in IndexIds : HasItem(DrawingKey(i)) /\ i \notin unreadable}
        IN /\ {loaded[j].id : j \in DOMAIN loaded} = good
           /\ Len(loaded) = Cardinality(good)
           /\ \A j \in DOMAIN loaded :
                 loaded[j] = Parse(store[DrawingKey(loaded[j].id)])

(* The index lists an id that has no record before one that has            *)
C20_Witness ==
    /\ ops = <<>>
    /\ Len(getIndex(TRUE)) = 2
    /\ ~HasItem(DrawingKey(getIndex(TRUE)[1]))
    /\ HasItem(DrawingKey(getIndex(TRUE)[2]))
    /\ Len(loadDrawingsSkipping({})) = 1

(* C18: a successful write of updateDrawingMeta changes no field of the    *)
(* stored record but the patched ones and updatedAt, and a successful      *)
(* write of saveDrawing whose drawing has no thumbnail leaves the stored   *)
(* thumbnail as it was.                                                    *)
C18_WritesKeepOtherFields ==
    [][/\ (At(1, "update", "setItem") /\ updateDrawingMeta_setItem(1, TRUE))
           => LET before == Parse(store[DrawingKey(ops[1].id)])
                  after == Parse(store'[DrawingKey(ops[1].id)])
              IN \A f \in DOMAIN before \ ({"updatedAt"} \cup DOMAIN ops[1].updates) :
                     after[f] = before[f]
       /\ (/\ At(1, "save", "setItem")
           /\ HasItem(DrawingKey(ops[1].id))
           /\ ops[1].drawing.thumbnail = Undefined
           /\ saveDrawing_setItem(1, TRUE))
           => Parse(store'[DrawingKey(ops[1].id)]).thumbnail
                  = Parse(store[DrawingKey(ops[1].id)]).thumbnail]_vars

(* C19: no write makes the updatedAt of a stored record smaller.           *)
C19_UpdatedAtMonotone ==
    [][\A id \in DrawingIds :
          (HasItem(DrawingKey(id)) /\ HasItem(DrawingKey(id))')
              => Parse(store'[DrawingKey(id)]).updatedAt
                     >= Parse(store[DrawingKey(id)]).updatedAt]_vars

(* C21: the list loadDrawings returns is sorted by updatedAt, newest       *)
(* first: no drawing of it is older than the one after it.                 *)
C21_NewestFirst ==
    \A j \in 1..(Len(loadDrawings) - 1) :
        loadDrawings[j].updatedAt >= loadDrawings[j + 1].updatedAt

(* The drawing created first, last in the index, was written last and is   *)
(* listed first.                                                           *)
C21_Witness ==
    /\ Len(getIndex(TRUE)) = 2
    /\ Len(loadDrawings) = 2
    /\ loadDrawings[1].id = getIndex(TRUE)[2]
    /\ loadDrawings[1].updatedAt > loadDrawings[2].updatedAt
    /\ loadDrawings[1].createdAt <= loadDrawings[2].createdAt

(* The list has no id twice *)
NoDuplicates(s) == \A i, j \in DOMAIN s : s[i] = s[j] => i = j

(* C22: only createDrawing and deleteDrawing change the index, never       *)
(* saveDrawing or updateDrawingMeta; a createDrawing that returns its      *)
(* drawing has put the new id in front of the index as it was and a        *)
(* deleteDrawing that returns true has taken its id out of it, so that the *)
(* index lists the drawings created and not deleted, last created first,   *)
(* each once.                                                              *)
C22_IndexInCreationOrder ==
    [][/\ getIndex(TRUE)' # getIndex(TRUE)
           => At(1, "create", "saveIndex") \/ At(1, "delete", "saveIndex")
       /\ (At(1, "create", "saveIndex") /\ ops' # <<>> /\ ops'[1].pc = "return"
              /\ ops'[1].result # NoDrawing)
           => getIndex(TRUE)' = <<ops[1].id>> \o getIndex(TRUE)
       /\ (At(1, "delete", "saveIndex") /\ ops' # <<>> /\ ops'[1].pc = "return"
              /\ ops'[1].result = TRUE)
           => getIndex(TRUE)' = Filter(getIndex(TRUE), ops[1].id)
       /\ NoDuplicates(getIndex(TRUE)')]_vars

(* C23: loadDrawing(id) returns the record stored under 'drawing-<id>'     *)
(* whenever there is one and null whenever there is none, whether or not   *)
(* the index lists id.                                                     *)
C23_LoadIgnoresIndex ==
    \A id \in DrawingIds :
        /\ HasItem(DrawingKey(id)) => loadDrawing(id) = Parse(store[DrawingKey(id)])
        /\ ~HasItem(DrawingKey(id)) => loadDrawing(id) = NoDrawing

(* One drawing has a record and is not in the index, another is in the     *)
(* index and has no record.                                                *)
C23_Witness ==
    /\ \E id \in Orphans : loadDrawing(id) # NoDrawing
    /\ \E id \in Dangling : loadDrawing(id) = NoDrawing

(* C24: a flush whose thumbnail could not be made goes on to the storage   *)
(* write, with a drawing that has no thumbnail; when that write succeeds   *)
(* the record is stored, isDirty becomes false and saveNow resolves to     *)
(* true.                                                                   *)
C24_ThumbnailFailureIsNotFatal ==
    [][\A f \in BagToSet(flushes) :
          /\ (/\ FlushAt(f, "generateThumbnail") /\ isMounted
              /\ CopiesIn(f, flushes') < CopiesIn(f, flushes))
              => \E g \in BagToSet(flushes') :
                    /\ Started(g) /\ g.pc = "onSave"
                    /\ g.kind = f.kind /\ g.data = f.data
          /\ (/\ FlushAt(f, "onSave") /\ isMounted
              /\ f.payload.thumbnail = Undefined
              /\ flush_onSave(f, TRUE))
              => /\ store'[DrawingKey(f.payload.id)] = Stringify(f.payload)
                 /\ "thumbnail" \notin DOMAIN store'[DrawingKey(f.payload.id)]
                 /\ isDirty' = FALSE
                 /\ f.kind = "saveNow" => saveNowResult' = "true"]_vars

(* saveNow has resolved to true and the drawing is clean, with a scene of  *)
(* one element stored and no thumbnail                                     *)
C24_Witness ==
    /\ saveNowResult = "true"
    /\ isMounted /\ ~isDirty
    /\ flushes = EmptyBag
    /\ Len(elements) # 0
    /\ Parse(store[DrawingKey(drawing.id)]).data.elements = elements
    /\ Parse(store[DrawingKey(drawing.id)]).thumbnail = Undefined

(* C25: until the hook is initialized, a call of handleChange leaves       *)
(* isDirty, the auto-save timeout, the flushes and the store as they are,  *)
(* whatever the scene, and the mounted hook is clean with no timeout       *)
(* pending; once the hook is initialized, a call with a scene whose hash   *)
(* is not the last saved one sets isDirty and arms the timeout.            *)
C25_IgnoredUntilInitialized ==
    [][\A els \in Scenes :
          /\ (~isInitialized /\ handleChange(els))
              => UNCHANGED <<isDirty, autoSaveTimer, flushes, store>>
          /\ (isMounted /\ ~isInitialized)
              => ~isDirty /\ autoSaveTimer = NoTimer
          /\ (/\ isMounted /\ isInitialized /\ handleChange(els)
              /\ getDataHash(els) # lastSavedHash)
              => isDirty' /\ autoSaveTimer' = AutoSaveInterval]_vars

(* The scene was changed while the hook was not yet initialized            *)
C25_Witness ==
    /\ excalidrawAPI /\ isMounted /\ ~isInitialized
    /\ elements # drawing.data.elements
    /\ getDataHash(elements) # lastSavedHash
    /\ ~isDirty /\ autoSaveTimer = NoTimer
    /\ flushes = EmptyBag

(* The step arms the auto-save timeout *)
TimerArmed ==
    /\ autoSaveTimer' # NoTimer
    /\ autoSaveTimer = NoTimer \/ autoSaveTimer' > autoSaveTimer

(* C26: a flush whose write fails arms no timeout, starts no flush and     *)
(* leaves isDirty and the store as they are; a flush is started only by    *)
(* saveNow or by a timeout that handleChange armed, and the timeout is     *)
(* armed only by a handleChange whose hash is not the last saved one.      *)
C26_NoAutomaticRetry ==
    [][/\ \A f \in BagToSet(flushes) :
            (FlushAt(f, "onSave") /\ flush_onSave(f, FALSE))
                => /\ UNCHANGED <<autoSaveTimer, isDirty, store>>
                   /\ \A g \in BagToSet(flushes') : ~Started(g)
       /\ \A g \in BagToSet(flushes') :
            (Started(g) /\ g.pc = "generateThumbnail")
                => \/ g.kind = "saveNow" /\ saveNow
                   \/ /\ g.kind = "timer"
                      /\ autoSaveTimer = 0 /\ lastChangeAt # Never
       /\ TimerArmed
            => \E els \in Scenes :
                  handleChange(els) /\ getDataHash(els) # lastSavedHash]_vars

(* A save by hand has failed: the drawing is dirty, no flush is in         *)
(* progress and no timeout is pending                                      *)
C26_Witness ==
    /\ isMounted /\ isInitialized
    /\ saveNowResult = "false"
    /\ isDirty
    /\ flushes = EmptyBag
    /\ autoSaveTimer = NoTimer
    /\ getDataHash(elements) # lastSavedHash

(* C27: a call of saveNow that starts a flush leaves no auto-save timeout  *)
(* pending, so that a timeout armed before the call starts no flush: the   *)
(* flush of a timeout is started by a timeout that has run out and that    *)
(* handleChange armed after the last call of saveNow.                      *)
C27_SaveNowCancelsTimer ==
    [][/\ \A g \in BagToSet(flushes') :
            (Started(g) /\ g.kind = "saveNow" /\ g.pc = "generateThumbnail")
                => autoSaveTimer' = NoTimer /\ ~TimerFlushStarts
       /\ TimerFlushStarts => autoSaveTimer = 0 /\ lastChangeAt # Never
       /\ autoSaveTimer # NoTimer => lastChangeAt # Never]_vars

(* The scene was changed and then saved by hand before the timeout of the  *)
(* change could run out: the flush of saveNow is in progress and no        *)
(* timeout is pending.                                                     *)
C27_Witness ==
    /\ isMounted /\ isDirty
    /\ now = 0
    /\ autoSaveTimer = NoTimer
    /\ \E f \in BagToSet(flushes) :
          f.kind = "saveNow" /\ f.data.elements = elements /\ elements # <<>>

(* The stored record of the open drawing *)
StoredDrawing == Parse(store[DrawingKey(drawing.id)])

(* C28: a saveNow of a clean drawing whose scene and tags are the stored   *)
(* ones leaves the stored content, name and tags, the clean state and the  *)
(* last saved hash as they are; and a saveNow that has succeeded with no   *)
(* change since it was called leaves such a drawing, so that a second      *)
(* call changes none of these.                                             *)
C28_SaveNowIdempotent ==
    [][\A f \in BagToSet(flushes) :
          (f.kind = "saveNow" /\ FlushAt(f, "onSave") /\ flush_onSave(f, TRUE))
            => /\ (/\ ~isDirty
                   /\ lastSavedHash = getDataHash(StoredDrawing.data.elements)
                   /\ f.data.elements = StoredDrawing.data.elements
                   /\ f.payload.tags = StoredDrawing.tags)
                   => /\ StoredDrawing'.data = StoredDrawing.data
                      /\ StoredDrawing'.name = StoredDrawing.name
                      /\ StoredDrawing'.tags = StoredDrawing.tags
                      /\ isDirty' = FALSE
                      /\ lastSavedHash' = lastSavedHash
               /\ (f.data.elements = elements /\ f.payload.tags = tagsRef)
                   => /\ isDirty' = FALSE
                      /\ lastSavedHash' = getDataHash(StoredDrawing'.data.elements)
                      /\ StoredDrawing'.data.elements = elements'
                      /\ StoredDrawing'.tags = tagsRef']_vars

(* A second saveNow of a scene of one element is in progress after a first *)
(* one has saved it: the drawing is clean and the flush is about to write  *)
(* the stored scene and tags again.                                        *)
C28_Witness ==
    /\ ~isDirty /\ lastSaved # Never /\ saveNowResult = "true"
    /\ elements # <<>>
    /\ lastSavedHash = getDataHash(elements)
    /\ \E f \in BagToSet(flushes) :
          /\ f.kind = "saveNow" /\ f.pc = "onSave"
          /\ f.data.elements = StoredDrawing.data.elements
          /\ f.data.elements = elements
          /\ f.payload.tags = StoredDrawing.tags

(* The scenes have the same ids, types, positions and versions in the     *)
(* same order                                                              *)
SameSummary(s, t) ==
    /\ Len(s) = Len(t)
    /\ \A i \in DOMAIN s :
          /\ s[i].id = t[i].id /\ s[i].type = t[i].type
          /\ s[i].x = t[i].x /\ s[i].y = t[i].y
          /\ s[i].version = t[i].version

(* t is s with one element more *)
ElementAdded(s, t) ==
    /\ Len(t) = Len(s) + 1
    /\ \E i \in DOMAIN t : RemoveAt(t, i) = s

(* t is s with the version of at least one element raised *)
VersionBumped(s, t) ==
    /\ Len(s) = Len(t)
    /\ \A i \in DOMAIN s :
          /\ s[i].id = t[i].id /\ s[i].type = t[i].type
          /\ s[i].x = t[i].x /\ s[i].y = t[i].y
          /\ t[i].version >= s[i].version
    /\ \E i \in DOMAIN s : t[i].version > s[i].version

(* C30: the hash of the scene is the same as that of the stored scene when *)
(* both have the same ids, types, positions and versions in the same       *)
(* order, and another one when the scene is the stored one with an element *)
(* added, an element removed or a version raised; it is "empty" for the    *)
(* scene without elements and for no other.                                *)
C30_Fingerprint ==
    LET s == drawing.data.elements
        t == elements
    IN /\ SameSummary(s, t) => getDataHash(t) = getDataHash(s)
       /\ (ElementAdded(s, t) \/ ElementAdded(t, s) \/ VersionBumped(s, t))
            => getDataHash(t) # getDataHash(s)
       /\ getDataHash(<<>>) = "empty"
       /\ (getDataHash(t) = "empty") <=> (t = <<>>)

(* The scene is the stored one with the version of an element raised and   *)
(* its colour changed, and the initialized hook has marked it dirty.       *)
C30_Witness ==
    /\ isInitialized /\ isDirty
    /\ lastSavedHash = getDataHash(drawing.data.elements)
    /\ VersionBumped(drawing.data.elements, elements)
    /\ Len(elements) = 2
    /\ \E i \in DOMAIN elements :
          elements[i].strokeColor # drawing.data.elements[i].strokeColor

(* What a repository call gives its caller is a value of the call's type:  *)
(* true or false for deleteDrawing, the drawing or null for the others     *)
IsValue(o) ==
    IF o.kind = "delete" THEN o.result \in BOOLEAN
    ELSE \/ o.result = NoDrawing
         \/ "id" \in DOMAIN o.result /\ o.result.id = o.id

(* Every call that has returned and every saveNow that has resolved has    *)
(* given a value, and so do loadDrawing and loadDrawings whatever read     *)
(* throws.                                                                 *)
OutcomesAreValues ==
    /\ \A k \in DOMAIN ops : ops[k].pc = "return" => IsValue(ops[k])
    /\ saveNowResult \in {"none", "true", "false"}
    /\ \A id \in DrawingIds :
          /\ loadDrawing_catch(id, FALSE) = NoDrawing
          /\ loadDrawing_catch(id, TRUE) \in {NoDrawing, loadDrawing(id)}
    /\ \A ok \in BOOLEAN, unreadable \in SUBSET IndexIds :
          LET loaded == loadDrawings_catch(ok, unreadable)
          IN /\ Len(loaded) <= Len(getIndex(TRUE))
             /\ \A j \in DOMAIN loaded : loaded[j].id \in IndexIds \ unreadable
    /\ getIndex(FALSE) = <<>>

(* C29: whatever storage or thumbnail call fails, every repository call    *)
(* returns a value (null, false or a list that may be shorter), every      *)
(* flush ends, saveNow resolving to true or false, and a flush whose write *)
(* failed leaves isDirty as it was.                                        *)
C29_NothingIsFatal ==
    [][/\ OutcomesAreValues'
       /\ \A f \in BagToSet(flushes) :
            (FlushAt(f, "onSave") /\ flush_onSave(f, FALSE))
                => /\ isDirty' = isDirty
                   /\ CopiesIn(f, flushes') < CopiesIn(f, flushes)
                   /\ f.kind = "saveNow" => saveNowResult' = "false"]_vars

(* A save by hand has failed and left the drawing dirty, and later a       *)
(* rename of the stored drawing has returned null.                         *)
C29_Witness ==
    /\ saveNowResult = "false" /\ isDirty
    /\ \E k \in DOMAIN ops :
          /\ ops[k].kind = "update" /\ ops[k].pc = "return"
          /\ ops[k].result = NoDrawing
          /\ HasItem(DrawingKey(ops[k].id))


(* C31.  A successful updateDrawingMeta stores an updatedAt strictly       *)
(* greater than the updatedAt the record had before the update, also when  *)
(* the update is issued right after the create or after another update.    *)
C31_UpdatedAtStrictlyGreater ==
    [][\A k \in DOMAIN ops :
          (At(k, "update", "setItem") /\ updateDrawingMeta_setItem(k, TRUE)
             /\ HasItem(DrawingKey(ops[k].id)))
              => Parse(store'[DrawingKey(ops[k].id)]).updatedAt
                     > Parse(store[DrawingKey(ops[k].id)]).updatedAt]_vars


(* C32.  isDirty goes from true to false only in the step in which the     *)
(* write of a flush returns a record, and in that step the last saved hash *)
(* becomes the hash of the snapshot the flush took when it started, not    *)
(* the hash of what the editor holds when the write returns.               *)
C32_CleanOnlyBySuccessfulWrite ==
    [][(isDirty /\ ~isDirty')
          => \E f \in BagToSet(flushes) :
                /\ flush_onSave(f, TRUE)
                /\ lastSavedHash' = getDataHash(f.data.elements)]_vars

(* A write has cleared isDirty and the saved hash is the one of the stored *)
(* snapshot, while the editor holds something else.                        *)
C32_Witness ==
    /\ isMounted /\ ~isDirty /\ lastSaved # Never
    /\ lastSavedHash = getDataHash(StoredDrawing.data.elements)
    /\ lastSavedHash # getDataHash(elements)


(* C33.  When the write of a flush returns a record and leaves the         *)
(* mounted, initialized hook idle (no timeout pending, no flush in         *)
(* progress), the stored record's content has the hash of what the editor  *)
(* holds: no edit is left unsaved.                                         *)
C33_IdleMeansSaved ==
    [][\A f \in BagToSet(flushes) :
          (/\ flush_onSave(f, TRUE)
           /\ isMounted' /\ isInitialized'
           /\ flushes' = EmptyBag /\ autoSaveTimer' = NoTimer)
              => getDataHash(StoredDrawing.data.elements)' = getDataHash(elements)']_vars


(* C34.  The writes of a document reach the store in the order of their    *)
(* snapshots: in a session whose every edit makes a later revision, no     *)
(* flush writes a snapshot over a stored revision that is later than it.   *)
C34_WritesInSnapshotOrder ==
    [][\A f \in BagToSet(flushes) :
          flush_onSave(f, TRUE)
              => ~Later(f.data.elements, StoredDrawing.data.elements)]_vars


(* C35.  Neither update creates a record: when the id of a metadata update *)
(* that reads the record, or of a content save that writes it, has no      *)
(* stored record, the step leaves the store as it is, so the record of a   *)
(* deleted drawing does not come back.                                     *)
C35_UpdateNeverCreates ==
    [][\A k \in DOMAIN ops :
          (/\ ~HasItem(DrawingKey(ops[k].id))
           /\ updateDrawingMeta_getItem(k, TRUE) \/ saveDrawing_setItem(k, TRUE))
              => store' = store]_vars


(* C36.  The step that completes createDrawing or deleteDrawing keeps      *)
(* every other id of the index, in the same relative order: the index      *)
(* without the id of the call is the same before and after, also when the  *)
(* read of the index failed during the call.                               *)
C36_OtherEntriesKept ==
    [][(\E ok \in BOOLEAN :
            createDrawing_saveIndex(1, ok) \/ deleteDrawing_saveIndex(1, ok))
          => Filter(getIndex(TRUE)', ops[1].id)
                 = Filter(getIndex(TRUE), ops[1].id)]_vars


(* C37.  The isSaving flag of the mounted hook is true exactly while a     *)
(* flush is in progress: never false while a flush awaits its thumbnail or *)
(* its write, never true when no flush is in progress.                     *)
C37_SavingIffFlushInProgress ==
    isMounted => (isSaving <=> flushes # EmptyBag)


(* A change of the tags only, or a report of the editor with the elements  *)
(* as they were (a change of appState or files only)                       *)
TagsOnlyEdit == \E t \in TagLists : handleUpdateTags(t)

AppStateOnlyEdit == handleChange(elements)

(* C38.  An edit of the tags only never sets isDirty, arms no timeout and  *)
(* writes nothing; an edit of appState or files only does neither when the *)
(* hash of the elements is the last saved one.  Such an edit reaches the   *)
(* store only with a later flush.                                          *)
C38_OnlyElementChangesDirty ==
    [][(TagsOnlyEdit \/ (AppStateOnlyEdit /\ getDataHash(elements) = lastSavedHash))
          => /\ isDirty' = isDirty /\ autoSaveTimer' = autoSaveTimer
             /\ flushes' = flushes /\ store' = store]_vars

(* The tags were changed and are not stored, and the drawing is neither    *)
(* dirty nor about to be saved.                                            *)
C38_Witness ==
    /\ isInitialized /\ tagsRef # StoredDrawing.tags
    /\ getDataHash(elements) = lastSavedHash
    /\ ~isDirty /\ autoSaveTimer = NoTimer /\ flushes = EmptyBag

(* C38 as stated: no edit of the tags only or of appState or files only    *)
(* ever sets isDirty or arms the timeout, whatever the last saved hash is. *)
C38_NeverDirtiesNorArms ==
    [][(TagsOnlyEdit \/ AppStateOnlyEdit)
          => isDirty' = isDirty /\ autoSaveTimer' = autoSaveTimer]_vars


(* Scene t is scene s, of two elements with distinct ids, with the two     *)
(* elements in each other's place                                          *)
Swapped(s, t) ==
    /\ Len(s) = 2 /\ s[1].id # s[2].id
    /\ t = <<s[2], s[1]>>

(* C39.  The hash depends on the order of the elements: when the editor    *)
(* reports the stored scene with its two distinct elements swapped, the    *)
(* hash is another one than that of the stored scene, and the initialized  *)
(* hook marks the drawing dirty.                                           *)
C39_OrderSensitive ==
    [][\A t \in HashScenes :
          (handleChange(t) /\ Swapped(drawing.data.elements, t))
              => /\ getDataHash(t) # getDataHash(drawing.data.elements)
                 /\ isInitialized => isDirty']_vars

(* The editor holds the stored scene with its two elements swapped and the *)
(* initialized hook has marked it dirty.                                   *)
C39_Witness ==
    /\ isInitialized /\ isDirty
    /\ lastSavedHash = getDataHash(drawing.data.elements)
    /\ Swapped(drawing.data.elements, elements)

====
